---- MODULE Spec2Model ----
(***************************************************************************)
(* Model of mangadex_load_chapter.js: the concurrency-limited job runner   *)
(* (runJob), the chapter resolver (fetchLatestChapter / doRequest), the    *)
(* retry orchestrator (tryFillBadge), card discovery (enhanceCard and the  *)
(* MutationObserver) and the minimum-chapters filter (applyVisibility).    *)
(*                                                                         *)
(* The script runs in one cooperative execution context.  Every action is  *)
(* one task of the event loop together with the microtasks (promise        *)
(* continuations) it triggers: a page mutation with the observer callback, *)
(* a timer callback, a GM_xmlhttpRequest callback, an input event.         *)
(*                                                                         *)
(* Texts are sequences of one-character strings so that the regular        *)
(* expression and parseFloat can be computed on them.  A JavaScript value   *)
(* is a record [t, s]: t is "null", "undef" or "str", s the characters.    *)
(***************************************************************************)
EXTENDS Integers, Sequences, FiniteSets

\* ------------------------------------------------------------------ CONFIG
CONCURRENCY_LIMIT == 6
SHORT_RETRY_BASE == 2000
SHORT_RETRY_COUNT == 10
LONG_RETRY_BASE == 5000
LONG_RETRY_MAX == 6

\* ------------------------------------------------------------------ bounds
\* Cards the page shows.
NumCards == 7
\* Largest threshold the user types into the filter input.
MaxThreshold == 1

Cards == 1..NumCards
\* The card the page may remove and re-insert and whose requests may fail.
Volatile == {1}
\* The cards the page inserts once, in index order, and leaves alone; their
\* requests succeed and are answered in the order they were sent.
Steady == Cards \ Volatile

\* ------------------------------------------------------------------ values
Null == [t |-> "null", s |-> <<>>]
Undefined == [t |-> "undef", s |-> <<>>]
Str(s) == [t |-> "str", s |-> s]

\* String(v), for the values the model holds
ToString(v) ==
  IF v.t = "str" THEN v.s
  ELSE IF v.t = "null" THEN <<"n", "u", "l", "l">>
  ELSE <<"u", "n", "d", "e", "f", "i", "n", "e", "d">>

QUESTION == Str(<<"?">>)
ELLIPSIS == Str(<<"...">>)
ONE == Str(<<"1">>)
EMPTY == Str(<<>>)
\* a card without a badge element
NoBadge == [t |-> "absent", s |-> <<>>]

UpperCase ==
  <<"A", "B", "C", "D", "E", "F", "G", "H", "I", "J", "K", "L", "M",
    "N", "O", "P", "Q", "R", "S", "T", "U", "V", "W", "X", "Y", "Z">>
LowerCase ==
  <<"a", "b", "c", "d", "e", "f", "g", "h", "i", "j", "k", "l", "m",
    "n", "o", "p", "q", "r", "s", "t", "u", "v", "w", "x", "y", "z">>

\* the /i flag: letters compare by their lower-case form
Fold(ch) ==
  IF \E i \in 1..26 : UpperCase[i] = ch
  THEN LowerCase[CHOOSE i \in 1..26 : UpperCase[i] = ch]
  ELSE ch

\* the characters \s matches, among those the model's texts use
WhiteSpace == {" ", "\t", "\n"}

\* the literal `lit` sits in s at position i, letters folded
LiteralAt(s, i, lit) ==
  /\ i >= 1
  /\ i + Len(lit) - 1 <= Len(s)
  /\ \A k \in 1..Len(lit) : Fold(s[i + k - 1]) = lit[k]

\* /one[\s-]?shot/i matched with its start at position i
OneShotAt(s, i) ==
  /\ LiteralAt(s, i, <<"o", "n", "e">>)
  /\ \/ LiteralAt(s, i + 3, <<"s", "h", "o", "t">>)
     \/ /\ i + 3 <= Len(s)
        /\ s[i + 3] \in WhiteSpace \cup {"-"}
        /\ LiteralAt(s, i + 4, <<"s", "h", "o", "t">>)

\* the matcher accepts a text without "one" at its very start only
OneShotAnchored(s) == OneShotAt(s, 1)

\* /one[\s-]?shot/i.test(s): the pattern is not anchored
OneShotTest(s) == \E i \in 1..Len(s) : OneShotAt(s, i)

\* onload's handling of j.data?.[0]?.attributes?.chapter, up to resolve(...)
Normalize(raw) ==
  LET chap == IF raw.t \in {"null", "undef"} \/ OneShotTest(ToString(raw))
              THEN ONE
              ELSE raw
  IN  IF chap.t \in {"null", "undef"} THEN QUESTION ELSE chap

\* ------------------------------------------------------------------ numbers
Digits == <<"0", "1", "2", "3", "4", "5", "6", "7", "8", "9">>
IsDigit(ch) == \E d \in 1..10 : Digits[d] = ch
DigitValue(ch) == (CHOOSE d \in 1..10 : Digits[d] = ch) - 1

RECURSIVE Pow(_, _)
Pow(b, e) == IF e = 0 THEN 1 ELSE b * Pow(b, e - 1)

\* length of the longest run of digits of s that starts at position i
RECURSIVE DigitRun(_, _)
DigitRun(s, i) ==
  IF i <= Len(s) /\ IsDigit(s[i]) THEN 1 + DigitRun(s, i + 1) ELSE 0

\* the decimal value of the digits s[i..i+n-1]
RECURSIVE DigitsValue(_, _, _)
DigitsValue(s, i, n) ==
  IF n = 0 THEN 0
  ELSE 10 * DigitsValue(s, i, n - 1) + DigitValue(s[i + n - 1])

\* first position of s at or after i that holds no white space
RECURSIVE SkipSpace(_, _)
SkipSpace(s, i) ==
  IF i <= Len(s) /\ s[i] \in WhiteSpace THEN SkipSpace(s, i + 1) ELSE i

NaN == [nan |-> TRUE, num |-> 0, den |-> 1]

\* parseFloat(s): the longest decimal prefix [sign] digits [. digits] after
\* leading white space, as the fraction num/den; NaN when there is no digit.
\* (Exponents and "Infinity" are outside the texts the model uses.)
ParseFloatText(s) ==
  LET b == SkipSpace(s, 1)
      neg == b <= Len(s) /\ s[b] = "-"
      i == IF b <= Len(s) /\ s[b] \in {"-", "+"} THEN b + 1 ELSE b
      n == DigitRun(s, i)
      dot == i + n <= Len(s) /\ s[i + n] = "."
      f == IF dot THEN DigitRun(s, i + n + 1) ELSE 0
      mag == DigitsValue(s, i, n) * Pow(10, f) + DigitsValue(s, i + n + 1, f)
  IN  IF n + f = 0 THEN NaN
      ELSE [nan |-> FALSE, num |-> IF neg THEN 0 - mag ELSE mag, den |-> Pow(10, f)]

\* parseFloat(card.dataset.chap); an unset data attribute reads undefined
\* (the text is converted once and then parsed)
ParseFloat(v) == CHOOSE n \in {ParseFloatText(s) : s \in {ToString(v)}} : TRUE

\* applyVisibility: the value written to card.style.display
Display(datasetChap, min) ==
  LET n == ParseFloat(datasetChap)
  IN  IF ~n.nan /\ min > 0 /\ n.num < min * n.den THEN "none" ELSE ""

\* ------------------------------------------------------------------ state
VARIABLES
  dom,          \* card -> [cover, idLink]: what querySelector finds in the card
  onPage,       \* the cards document.body contains
  processed,    \* the WeakSet processed
  badge,        \* card -> badge.textContent (NoBadge: no badge element)
  datasetChap,  \* card -> card.dataset.chap (Undefined: never set)
  display,      \* card -> card.style.display
  minChapters,  \* the filter threshold
  queue,        \* runJob's queue of {job, resolve}
  active,       \* runJob's counter
  sleepers,     \* runJob calls inside `await sleep(50)`, by their own promise
  running,      \* dequeued {job, resolve} whose `await j()` has not returned
  sessions,     \* suspended tryFillBadge chains: in `await runJob(...)`
                \* (pc "await"), in fetchLatestChapter's sleep ("sleep") or
                \* behind the setTimeout of a long retry ("timer")
  rediscovered, \* the cards enhanceCard was called for once more
  started,      \* card -> number of tryFillBadge(card, id, badge, 0) calls
  attempts,     \* card -> number of GM_xmlhttpRequest calls made for it
  timerLog,     \* card -> the delays passed to setTimeout by tryFillBadge
  failedCalls,  \* card -> fetchLatestChapter calls that returned no chapter
  settledIds,   \* the runJob promises whose resolve function was called
  lastSettle,   \* card -> the last settlement of a runJob promise of the card
  lastCall,     \* card -> the last return of fetchLatestChapter for the card
  calls,        \* card -> number of fetchLatestChapter calls made for it
  submitted,    \* the number of runJob calls made so far
  lastStart     \* the most recently started job was the lastStart-th submitted

vars ==
  <<dom, onPage, processed, badge, datasetChap, display, minChapters, queue,
    active, sleepers, running, sessions, rediscovered, started, attempts,
    timerLog, failedCalls, settledIds, lastSettle, lastCall, calls,
    submitted, lastStart>>

\* the state as one record, so that a handler is a function on states
World ==
  [dom |-> dom, onPage |-> onPage, processed |-> processed, badge |-> badge,
   datasetChap |-> datasetChap, display |-> display,
   minChapters |-> minChapters, queue |-> queue, active |-> active,
   sleepers |-> sleepers, running |-> running, sessions |-> sessions,
   rediscovered |-> rediscovered, started |-> started, attempts |-> attempts, timerLog |-> timerLog,
   failedCalls |-> failedCalls, settledIds |-> settledIds,
   lastSettle |-> lastSettle, lastCall |-> lastCall,
   calls |-> calls, submitted |-> submitted, lastStart |-> lastStart]

\* (the next state is computed once, then assigned)
Becomes(next) ==
  \E w \in {next} :
    /\ dom' = w.dom
    /\ onPage' = w.onPage
    /\ processed' = w.processed
    /\ badge' = w.badge
    /\ datasetChap' = w.datasetChap
    /\ display' = w.display
    /\ minChapters' = w.minChapters
    /\ queue' = w.queue
    /\ active' = w.active
    /\ sleepers' = w.sleepers
    /\ running' = w.running
    /\ sessions' = w.sessions
    /\ rediscovered' = w.rediscovered
    /\ started' = w.started
    /\ attempts' = w.attempts
    /\ timerLog' = w.timerLog
    /\ failedCalls' = w.failedCalls
    /\ settledIds' = w.settledIds
    /\ lastSettle' = w.lastSettle
    /\ lastCall' = w.lastCall
    /\ calls' = w.calls
    /\ submitted' = w.submitted
    /\ lastStart' = w.lastStart

\* one runJob call: the n-th session of `card`, long try `longTry`, attempt a
CallId(card, n, longTry, a) ==
  [card |-> card, n |-> n, longTry |-> longTry, a |-> a]
IdOf(s) == CallId(s.card, s.n, s.longTry, s.a)
NoId == CallId(0, 0, 0, 0)

\* ------------------------------------------------------------------ inputs
\* chapter fields of a 200 response with a JSON body
RawFields ==
  { Null, QUESTION, Str(<<"0", ".", "5">>),
    Str(<<"O", "n", "e", "-", "S", "h", "o", "t">>) }

\* more of them, for the specification that studies onload alone
RawFieldsWide ==
  RawFields \cup
  { Undefined, EMPTY, Str(<<"5">>), Str(<<"8", "7", ".", "5">>),
    Str(<<"O", "n", "e", "s", "h", "o", "t">>),
    Str(<<"o", "n", "e", " ", "s", "h", "o", "t">>),
    Str(<<"O", "N", "E", "\t", "S", "H", "O", "T">>),
    Str(<<"A", " ", "o", "n", "e", "s", "h", "o", "t", "!">>),
    Str(<<"o", "n", "e", " ", " ", "s", "h", "o", "t">>),
    Str(<<"o", "n", "e", "_", "s", "h", "o", "t">>),
    Str(<<"s", "h", "o", "t">>),
    Str(<<"n", "u", "l", "l">>) }

Response(event, status, json, chapter) ==
  [event |-> event, status |-> status, json |-> json, chapter |-> chapter]

\* the callbacks of GM_xmlhttpRequest that make doRequest reject
Failures ==
  { Response("load", 200, FALSE, Undefined),
    Response("load", 429, TRUE, Undefined),
    Response("error", 0, FALSE, Undefined),
    Response("timeout", 0, FALSE, Undefined),
    Response("abort", 0, FALSE, Undefined) }

\* what GM_xmlhttpRequest may call back with
Responses ==
  { Response("load", 200, TRUE, r) : r \in RawFields } \cup Failures
ResponsesWide ==
  { Response("load", 200, TRUE, r) : r \in RawFieldsWide } \cup Failures

\* the response a card the page leaves alone gets
SteadyResponses == { Response("load", 200, TRUE, Str(<<"5">>)) }

\* ------------------------------------------------------------------ runJob
\* the dequeued job settles the promise of the runJob call that dequeued it
DequeuedOwnResolve(entry, submitter) ==
  [job |-> entry.job, resolve |-> submitter, by |-> submitter]

\* const { job: j, resolve: res } = queue.shift()
\* (by: the runJob call that runs the job)
Dequeued(entry, submitter) ==
  [job |-> entry.job, resolve |-> entry.resolve, by |-> submitter]

\* the entry is put in front of the waiting ones
PushFront(q, id, seq) == <<[job |-> id, resolve |-> id, seq |-> seq]>> \o q

\* queue.push({ job, resolve }); seq numbers the runJob calls in call order
Push(q, id, seq) == Append(q, [job |-> id, resolve |-> id, seq |-> seq])

\* the entry is taken off the queue and its job is not called
StartHeadLosesJob(w, submitter) == [w EXCEPT !.queue = Tail(@)]

\* queue.shift(); active++; j() -- the job calls GM_xmlhttpRequest
StartHead(w, submitter) ==
  LET e == Head(w.queue)
  IN  [w EXCEPT !.queue = Tail(@),
                !.active = @ + 1,
                !.running = @ \cup {Dequeued(e, submitter)},
                !.attempts[e.job.card] = @ + 1,
                !.lastStart = e.seq]

\* the while loop's condition dropped
MustWaitNever(w) == FALSE

\* while (active >= CONCURRENCY_LIMIT) await sleep(50)
MustWait(w) == w.active >= CONCURRENCY_LIMIT

\* runJob(job) up to its first suspension
RunJob(w, id) ==
  LET pushed == [w EXCEPT !.queue = Push(@, id, w.submitted + 1),
                          !.submitted = @ + 1]
  IN  IF MustWait(pushed)
      THEN [pushed EXCEPT !.sleepers = @ \cup {id}]
      ELSE StartHead(pushed, id)

\* try { res(await j()) } catch (e) { res(null) }: how res is called
RunJobSettle(outcome) ==
  [state |-> "fulfilled",
   value |-> IF outcome.ok THEN outcome.value ELSE Null]

\* the slot is given back only when the job fulfilled
FinishLeaksOnReject(w, e, outcome) ==
  [w EXCEPT !.running = @ \ {e},
            !.active = IF outcome.ok THEN @ - 1 ELSE @]

\* finally { active--; }: the job e has returned, with a value or an error
Finish(w, e, outcome) ==
  [w EXCEPT !.running = @ \ {e},
            !.active = @ - 1]

\* ------------------------------------------------------------------ doRequest
\* the promise of doRequest: resolve(value) or reject(...)
DoRequest(resp) ==
  IF resp.event # "load" THEN [ok |-> FALSE, value |-> Undefined]
  ELSE IF resp.status # 200 THEN [ok |-> FALSE, value |-> Undefined]
  ELSE IF ~resp.json THEN [ok |-> FALSE, value |-> Undefined]
  ELSE [ok |-> TRUE, value |-> Normalize(resp.chapter)]

\* ------------------------------------------------------------------ cards
ApplyVisibility(w, c) ==
  [w EXCEPT !.display[c] = Display(w.datasetChap[c], w.minChapters)]

\* one pass of fetchLatestChapter's loop: `await runJob(doRequest)`
FetchAttempt(w, c, n, longTry, a) ==
  RunJob([w EXCEPT !.sessions = @ \cup
            {[card |-> c, n |-> n, longTry |-> longTry, a |-> a,
              pc |-> "await", delay |-> 0]}],
         CallId(c, n, longTry, a))

\* the test is dropped
IsLiveAlways(w, c) == TRUE

\* document.body.contains(card)
IsLive(w, c) == c \in w.onPage

\* tryFillBadge up to `await fetchLatestChapter(mangaId)`
TryFillBadge(w, c, n, longTry) ==
  IF ~IsLive(w, c) THEN w
  ELSE FetchAttempt([w EXCEPT !.calls[c] = @ + 1], c, n, longTry, 0)

\* chap !== '?' && chap != null
IsSuccess(chap) == chap # QUESTION /\ chap.t \notin {"null", "undef"}

\* the retry budget off by one
MayRetryOneMore(longTry) == longTry <= LONG_RETRY_MAX

\* longTry < LONG_RETRY_MAX
MayRetry(longTry) == longTry < LONG_RETRY_MAX

\* LONG_RETRY_BASE * 2 ** longTry
LongDelay(longTry) == LONG_RETRY_BASE * Pow(2, longTry)

\* a success fills the badge and schedules the next long retry all the same
TryFillBadgeResumeKeepsRetrying(w, c, n, longTry, chap) ==
  LET retry == [card |-> c, n |-> n, longTry |-> longTry, a |-> 0,
                pc |-> "timer", delay |-> LongDelay(longTry)]
  IN  IF IsSuccess(chap)
      THEN ApplyVisibility(
             [w EXCEPT !.badge[c] = Str(ToString(chap)),
                       !.datasetChap[c] = Str(ToString(chap)),
                       !.sessions = IF MayRetry(longTry) THEN @ \cup {retry} ELSE @],
             c)
      ELSE IF MayRetry(longTry)
      THEN [w EXCEPT !.badge[c] = ELLIPSIS,
                     !.datasetChap[c] = EMPTY,
                     !.failedCalls[c] = @ + 1,
                     !.timerLog[c] = Append(@, LongDelay(longTry)),
                     !.sessions = @ \cup {retry}]
      ELSE [w EXCEPT !.badge[c] = QUESTION,
                     !.datasetChap[c] = EMPTY,
                     !.failedCalls[c] = @ + 1]

\* a failed call schedules the long retry and makes the next call at once
TryFillBadgeResumeRetriesAtOnce(w, c, n, longTry, chap) ==
  IF IsSuccess(chap)
  THEN ApplyVisibility([w EXCEPT !.badge[c] = Str(ToString(chap)),
                                 !.datasetChap[c] = Str(ToString(chap))], c)
  ELSE IF MayRetry(longTry)
  THEN FetchAttempt(
         [w EXCEPT !.badge[c] = ELLIPSIS,
                   !.datasetChap[c] = EMPTY,
                   !.failedCalls[c] = @ + 1,
                   !.timerLog[c] = Append(@, LongDelay(longTry)),
                   !.sessions = @ \cup
                     {[card |-> c, n |-> n, longTry |-> longTry, a |-> 0,
                       pc |-> "timer", delay |-> LongDelay(longTry)]}],
         c, n, longTry + 1, 0)
  ELSE [w EXCEPT !.badge[c] = QUESTION,
                 !.datasetChap[c] = EMPTY,
                 !.failedCalls[c] = @ + 1]

\* tryFillBadge after `await fetchLatestChapter(mangaId)` returned chap
TryFillBadgeResume(w, c, n, longTry, chap) ==
  IF IsSuccess(chap)
  THEN ApplyVisibility([w EXCEPT !.badge[c] = Str(ToString(chap)),
                                 !.datasetChap[c] = Str(ToString(chap))], c)
  ELSE IF MayRetry(longTry)
  THEN [w EXCEPT !.badge[c] = ELLIPSIS,
                 !.datasetChap[c] = EMPTY,
                 !.failedCalls[c] = @ + 1,
                 !.timerLog[c] = Append(@, LongDelay(longTry)),
                 !.sessions = @ \cup
                   {[card |-> c, n |-> n, longTry |-> longTry, a |-> 0,
                     pc |-> "timer", delay |-> LongDelay(longTry)]}]
  ELSE [w EXCEPT !.badge[c] = QUESTION,
                 !.datasetChap[c] = EMPTY,
                 !.failedCalls[c] = @ + 1]

\* SHORT_RETRY_BASE * 2 ** a
ShortDelay(a) == SHORT_RETRY_BASE * Pow(2, a)

\* fetchLatestChapter returns token after `made` attempts
FetchReturn(w, s, token, made, allFailed) ==
  TryFillBadgeResume(
    [w EXCEPT !.lastCall[s.card] =
       [made |-> made, allFailed |-> allFailed, token |-> token]],
    s.card, s.n, s.longTry, token)

\* the chain is dropped when the job failed
FetchResumeLosesFailure(w, s, settle, ok) ==
  IF ~ok THEN w ELSE FetchReturn(w, s, settle.value, s.a + 1, ~ok)

\* fetchLatestChapter when the promise of runJob settles: return its value,
\* or, had it rejected, sleep(SHORT_RETRY_BASE * 2 ** a)
FetchResume(w, s, settle, ok) ==
  IF settle.state = "rejected"
  THEN [w EXCEPT !.sessions = @ \cup
          {[s EXCEPT !.pc = "sleep", !.delay = ShortDelay(s.a)]}]
  ELSE FetchReturn(w, s, settle.value, s.a + 1, ~ok)

\* fetchLatestChapter when its sleep ends: the next pass, or return '?'
FetchWake(w, s) ==
  IF s.a + 1 < SHORT_RETRY_COUNT
  THEN FetchAttempt(w, s.card, s.n, s.longTry, s.a + 1)
  ELSE FetchReturn(w, s, QUESTION, SHORT_RETRY_COUNT, TRUE)

\* the WeakSet forgets
IsProcessedNever(w, c) == FALSE

\* processed.has(card)
IsProcessed(w, c) == c \in w.processed

\* a card without an id starts a session all the same
HasIdAlways(w, c) == TRUE

\* the href of a[href*="/title/"] yields a manga id
HasId(w, c) == w.dom[c].idLink

\* enhanceCard(card)
EnhanceCard(w, c) ==
  IF IsProcessed(w, c) THEN w
  ELSE LET w1 == [w EXCEPT !.processed = @ \cup {c}]
       IN  IF ~w.dom[c].cover THEN w1
           ELSE IF ~HasId(w, c)
           THEN [w1 EXCEPT !.badge[c] = QUESTION]
           ELSE TryFillBadge([w1 EXCEPT !.badge[c] = ELLIPSIS,
                                        !.started[c] = @ + 1],
                             c, w.started[c] + 1, 0)

\* document.querySelectorAll('.manga-card').forEach(applyVisibility)
ApplyVisibilityAll(w) ==
  [w EXCEPT !.display =
     [c \in Cards |-> IF c \in w.onPage
                      THEN Display(w.datasetChap[c], w.minChapters)
                      ELSE w.display[c]]]

\* ------------------------------------------------------------------ Init
DomKinds == [cover : BOOLEAN, idLink : BOOLEAN]
FullDom == [cover |-> TRUE, idLink |-> TRUE]
NoSettle ==
  [resolve |-> NoId, job |-> NoId, by |-> NoId, ok |-> FALSE, raw |-> Undefined,
   value |-> Undefined, state |-> "pending", result |-> Undefined]
NoCall == [made |-> 0, allFailed |-> FALSE, token |-> Undefined]

\* The script has run on a page that holds no card yet.
Init ==
  /\ dom \in {d \in [Cards -> DomKinds] : \A c \in Steady : d[c] = FullDom}
  /\ onPage = {}
  /\ processed = {}
  /\ badge = [c \in Cards |-> NoBadge]
  /\ datasetChap = [c \in Cards |-> Undefined]
  /\ display = [c \in Cards |-> ""]
  /\ minChapters \in 0..MaxThreshold
  /\ queue = <<>>
  /\ active = 0
  /\ sleepers = {}
  /\ running = {}
  /\ sessions = {}
  /\ rediscovered = {}
  /\ started = [c \in Cards |-> 0]
  /\ attempts = [c \in Cards |-> 0]
  /\ timerLog = [c \in Cards |-> <<>>]
  /\ failedCalls = [c \in Cards |-> 0]
  /\ settledIds = {}
  /\ lastSettle = [c \in Cards |-> NoSettle]
  /\ lastCall = [c \in Cards |-> NoCall]
  /\ calls = [c \in Cards |-> 0]
  /\ submitted = 0
  /\ lastStart = 0

\* ------------------------------------------------------------------ actions
\* The page adds card c to the document and the observer (or the first scan)
\* passes it to enhanceCard.  With stays = FALSE the page has taken the card
\* out again before the observer's callback runs.
Insert(c, stays) ==
  /\ c \notin onPage
  /\ c \in Steady => stays /\ \A d \in Steady : d < c => d \in onPage
  /\ Becomes(EnhanceCard(
       [World EXCEPT !.onPage = IF stays THEN @ \cup {c} ELSE @,
                     !.rediscovered = IF c \in processed THEN @ \cup {c} ELSE @],
       c))

\* The page takes card c out of the document; no code of the script runs.
Remove(c) ==
  /\ c \in onPage
  /\ c \in Volatile
  /\ Becomes([World EXCEPT !.onPage = @ \ {c}])

\* The input listener of the filter box.
EditThreshold(v) ==
  /\ v # minChapters
  /\ Becomes(ApplyVisibilityAll([World EXCEPT !.minChapters = v]))

\* A timer of a session fires: the long retry re-enters tryFillBadge, the
\* short retry goes on with fetchLatestChapter's loop.
TimerFire(s) ==
  /\ s \in sessions
  /\ s.pc \in {"timer", "sleep"}
  /\ LET w == [World EXCEPT !.sessions = @ \ {s}]
     IN  Becomes(IF s.pc = "timer"
                 THEN TryFillBadge(w, s.card, s.n, s.longTry + 1)
                 ELSE FetchWake(w, s))

\* the call that found a slot polls once more later
SlotPollKeepsPolling(p) ==
  /\ p \in sleepers
  /\ ~MustWait(World)
  /\ Becomes(StartHead(World, p))

\* A runJob call wakes from sleep(50) and finds a free slot.  (Waking with
\* no free slot changes nothing.)
SlotPoll(p) ==
  /\ p \in sleepers
  /\ ~MustWait(World)
  /\ Becomes(StartHead([World EXCEPT !.sleepers = @ \ {p}], p))

\* GM_xmlhttpRequest calls back for the running job e: doRequest settles,
\* runJob calls res and decrements active, and the chain that awaits the
\* promise goes on.
Respond(e, resp) ==
  /\ e \in running
  /\ e.job.card \in Steady => resp \in SteadyResponses
  /\ e.job.card \in Steady =>
       \A f \in running : f.job.card \in Steady => e.job.card <= f.job.card
  /\ LET outcome == DoRequest(resp)
         settle == RunJobSettle(outcome)
         c == e.resolve.card
         w == [Finish(World, e, outcome) EXCEPT
                 !.settledIds = @ \cup {e.resolve},
                 !.lastSettle[c] =
                   [resolve |-> e.resolve, job |-> e.job, by |-> e.by,
                    ok |-> outcome.ok,
                    raw |-> resp.chapter, value |-> outcome.value,
                    state |-> settle.state, result |-> settle.value]]
         waiting == {s \in sessions : s.pc = "await" /\ IdOf(s) = e.resolve}
     IN  IF waiting = {}
         THEN Becomes(w)
         ELSE LET s == CHOOSE s \in waiting : TRUE
              IN  Becomes(FetchResume([w EXCEPT !.sessions = @ \ {s}],
                                      s, settle, outcome.ok))

Next ==
  \/ \E c \in Cards, stays \in BOOLEAN : Insert(c, stays)
  \/ \E c \in Cards : Remove(c)
  \/ \E v \in 0..MaxThreshold : EditThreshold(v)
  \/ \E s \in sessions : TimerFire(s)
  \/ \E p \in sleepers : SlotPoll(p)
  \/ \E e \in running, resp \in Responses \cup SteadyResponses : Respond(e, resp)

Spec == Init /\ [][Next]_vars

\* The volatile card alone on the page, its requests answered with the wide
\* set of chapter fields.
NextOnload ==
  \/ \E c \in Volatile, stays \in BOOLEAN : Insert(c, stays)
  \/ \E c \in Volatile : Remove(c)
  \/ \E s \in sessions : TimerFire(s)
  \/ \E e \in running, resp \in ResponsesWide : Respond(e, resp)

SpecOnload == Init /\ [][NextOnload]_vars

\* The filter box left alone at "off", every request answered with a chapter
\* number or with status 429: the runs in which progress is studied.
FairResponses == SteadyResponses \cup {Response("load", 429, TRUE, Undefined)}

InitFair == Init /\ minChapters = 0

NextFair ==
  \/ \E c \in Cards, stays \in BOOLEAN : Insert(c, stays)
  \/ \E c \in Cards : Remove(c)
  \/ \E s \in sessions : TimerFire(s)
  \/ \E p \in sleepers : SlotPoll(p)
  \/ \E e \in running, resp \in FairResponses : Respond(e, resp)

\* Timers fire, GM_xmlhttpRequest calls back (after its timeout of 8 s at the
\* latest) and a runJob call in sleep(50) wakes; the page owes nothing.
Fairness ==
  /\ WF_vars(\E s \in sessions : TimerFire(s))
  /\ WF_vars(\E p \in sleepers : SlotPoll(p))
  /\ WF_vars(\E e \in running, resp \in FairResponses : Respond(e, resp))

SpecFair == InitFair /\ [][NextFair]_vars /\ Fairness

\* ------------------------------------------------------------------ claims
\* What the badge shows of an item: its chapter state.
StateOf(b) ==
  IF b = NoBadge THEN "None"
  ELSE IF b = ELLIPSIS THEN "Pending"
  ELSE IF b = QUESTION THEN "Unknown"
  ELSE "Resolved"
ChapterState(c) == StateOf(badge[c])

SessionsOf(S, c) == {s \in S : s.card = c}
Queued == {queue[i] : i \in 1..Len(queue)}
Min(a, b) == IF a < b THEN a ELSE b

\* C1: the number of jobs started and not yet finished never exceeds
\* CONCURRENCY_LIMIT, whatever the burst of submissions.
C1_ConcurrencyCap == Cardinality(running) <= CONCURRENCY_LIMIT

\* the cap is reached while a further submission waits for a slot
C1_Witness == Cardinality(running) = CONCURRENCY_LIMIT /\ sleepers # {}

\* C2: a fetchLatestChapter call whose every network attempt failed has made
\* exactly SHORT_RETRY_COUNT attempts and has returned "?".
C2_ExhaustedShortRetries ==
  \A c \in Cards :
    (lastCall[c].made > 0 /\ lastCall[c].allFailed) =>
      (lastCall[c].made = SHORT_RETRY_COUNT /\ lastCall[c].token = QUESTION)

\* C3: the delays the claim gives, LONG_RETRY_BASE * 2^k for k = 0..MAX-1
ClaimedDelays == [k \in 1..LONG_RETRY_MAX |-> LONG_RETRY_BASE * Pow(2, k - 1)]

\* C3: every failed resolver call schedules one long-retry timer until
\* LONG_RETRY_MAX are scheduled, the k-th with delay LONG_RETRY_BASE * 2^k;
\* the failure after the last retry leaves the item Unknown (badge "?") with
\* no timer and no session.
C3_LongRetrySchedule ==
  \A c \in Cards :
    /\ Len(timerLog[c]) <= LONG_RETRY_MAX
    /\ timerLog[c] = SubSeq(ClaimedDelays, 1, Len(timerLog[c]))
    /\ Len(timerLog[c]) = Min(failedCalls[c], LONG_RETRY_MAX)
    /\ failedCalls[c] <= LONG_RETRY_MAX + 1
    /\ (failedCalls[c] = LONG_RETRY_MAX + 1) <=>
         (badge[c] = QUESTION /\ dom[c].idLink)
    /\ badge[c] = QUESTION => SessionsOf(sessions, c) = {}

\* an item on the page that failed through all its long retries
C3_Witness ==
  \E c \in onPage :
    /\ badge[c] = QUESTION
    /\ failedCalls[c] = LONG_RETRY_MAX + 1
    /\ timerLog[c] = ClaimedDelays
    /\ attempts[c] = LONG_RETRY_MAX + 1

\* C4: no network attempt is started for an item that is not on the page.
C4_NoAttemptWhenNotLive ==
  [][\A c \in Cards : attempts'[c] > attempts[c] => c \in onPage']_vars

\* a text that is a decimal number as a whole
IsDecimalText(s) ==
  /\ \E i \in 1..Len(s) : IsDigit(s[i])
  /\ \A i \in 1..Len(s) : IsDigit(s[i]) \/ s[i] = "."
  /\ Cardinality({i \in 1..Len(s) : s[i] = "."}) <= 1

NumericBelow(v, n) ==
  /\ v.t = "str"
  /\ IsDecimalText(v.s)
  /\ ParseFloatText(v.s).num < n * ParseFloatText(v.s).den

\* C5: an item on the page is hidden if and only if it is Resolved with a
\* numeric value below the current threshold.
C5_HiddenIffBelowThreshold ==
  \A c \in onPage :
    (display[c] = "none") <=>
      (ChapterState(c) = "Resolved" /\ NumericBelow(badge[c], minChapters))

\* C6: a runJob promise is settled at most once, is fulfilled and never
\* rejected, and is fulfilled with the outcome of the job submitted with it:
\* the job's value, or null when the job rejected.
C6_PromiseGetsOwnOutcome ==
  /\ \A c \in Cards :
       lastSettle[c].state # "pending" =>
         /\ lastSettle[c].state = "fulfilled"
         /\ lastSettle[c].resolve = lastSettle[c].job
         /\ lastSettle[c].resolve.card = c
         /\ lastSettle[c].result =
              IF lastSettle[c].ok THEN lastSettle[c].value ELSE Null
  /\ \A e \in running \cup Queued : e.resolve = e.job /\ e.resolve \notin settledIds
  /\ Cardinality({e.resolve : e \in running \cup Queued})
       = Len(queue) + Cardinality(running)

\* a job that rejected after a runJob call other than its own had run it
C6_Witness ==
  \E c \in Cards :
    /\ lastSettle[c].state = "fulfilled"
    /\ lastSettle[c].by # lastSettle[c].resolve
    /\ ~lastSettle[c].ok
    /\ lastSettle[c].result = Null

C8_OneSessionPerItem ==
  \A c \in Cards :
    /\ started[c] <= 1
    /\ Cardinality(SessionsOf(sessions, c)) <= 1

\* an item reported again while its session is in a long retry
C8_Witness ==
  \E c \in rediscovered \cap onPage :
    \E s \in sessions : s.card = c /\ s.longTry >= 1

\* C9: the chapter state of an item changes only from Pending (or from no
\* badge, when the item is discovered) and Resolved and Unknown are
\* absorbing: state, value and number of attempts stay, no session exists.
C9_TerminalStatesAbsorb ==
  [][\A c \in Cards :
       /\ StateOf(badge'[c]) # StateOf(badge[c]) =>
            \/ StateOf(badge[c]) = "None"
                 /\ StateOf(badge'[c]) \in {"Pending", "Unknown"}
            \/ StateOf(badge[c]) = "Pending"
                 /\ StateOf(badge'[c]) \in {"Resolved", "Unknown"}
       /\ StateOf(badge[c]) \in {"Resolved", "Unknown"} =>
            /\ badge'[c] = badge[c]
            /\ datasetChap'[c] = datasetChap[c]
            /\ attempts'[c] = attempts[c]
            /\ SessionsOf(sessions', c) = {}
            /\ \A e \in running' : e.job.card # c]_vars

\* an item Resolved after a failed call and reported again since
C9_Witness ==
  \E c \in rediscovered \cap onPage :
    /\ ChapterState(c) = "Resolved"
    /\ failedCalls[c] >= 1
    /\ SessionsOf(sessions, c) = {}

\* the texts the one-shot pattern matches: "one", an optional white space or
\* hyphen, "shot", anywhere in the text, in any case
OneShotWords ==
  { <<"o", "n", "e">> \o sep \o <<"s", "h", "o", "t">> :
      sep \in {<<>>, <<"-">>} \cup {<<ws>> : ws \in WhiteSpace} }
FoldAll(s) == [i \in 1..Len(s) |-> Fold(s[i])]
Contains(s, word) ==
  \E i \in 1..Len(s) :
    i + Len(word) - 1 <= Len(s) /\ SubSeq(s, i, i + Len(word) - 1) = word
ClaimedOneShot(s) == \E word \in OneShotWords : Contains(FoldAll(s), word)

\* C10: a successful response is normalized to "1" when its chapter field is
\* null, absent or matches the one-shot pattern, and to the field unchanged
\* otherwise; so the value of a Resolved item is never null, never "?" and
\* never a one-shot text.
C10_Normalization ==
  \A c \in Cards :
    /\ lastSettle[c].ok =>
         lastSettle[c].value =
           IF \/ lastSettle[c].raw.t \in {"null", "undef"}
              \/ ClaimedOneShot(lastSettle[c].raw.s)
           THEN ONE
           ELSE lastSettle[c].raw
    /\ datasetChap[c] \notin {Undefined, EMPTY} =>
         /\ badge[c] = datasetChap[c]
         /\ datasetChap[c].t = "str"
         /\ datasetChap[c] # QUESTION
         /\ ~ClaimedOneShot(datasetChap[c].s)
         /\ lastSettle[c].ok
         /\ datasetChap[c] \in {ONE, lastSettle[c].raw}

\* a response whose chapter text holds "oneshot" after other text
C10_Witness ==
  \E c \in Cards :
    /\ lastSettle[c].ok
    /\ lastSettle[c].raw = Str(<<"A", " ", "o", "n", "e", "s", "h", "o", "t", "!">>)
    /\ datasetChap[c] = ONE
    /\ badge[c] = ONE

\* the attempts of item c the runner holds: queued, or executing
QueuedFor(c) == {i \in 1..Len(queue) : queue[i].job.card = c}
RunningFor(c) == {e \in running : e.job.card = c}
\* the long-retry timers of item c that have not fired
TimersOf(c) == {s \in sessions : s.card = c /\ s.pc = "timer"}

\* C11: for every item at most one network attempt is queued or executing
\* at any time, and no long-retry timer of the item is pending meanwhile.
C11_AttemptsSequential ==
  \A c \in Cards :
    /\ Cardinality(QueuedFor(c)) + Cardinality(RunningFor(c)) <= 1
    /\ (QueuedFor(c) # {} \/ RunningFor(c) # {}) => TimersOf(c) = {}

\* the attempt of a long retry waits in the queue behind a full runner
C11_Witness ==
  \E c \in Cards :
    /\ QueuedFor(c) # {}
    /\ Cardinality(running) = CONCURRENCY_LIMIT
    /\ failedCalls[c] >= 1
    /\ \E s \in sessions : s.card = c /\ s.pc = "await" /\ s.longTry >= 1

\* the number of jobs started so far
RECURSIVE SumOver(_, _)
SumOver(f, S) ==
  IF S = {} THEN 0
  ELSE LET x == CHOOSE x \in S : TRUE IN f[x] + SumOver(f, S \ {x})
TotalStarted == SumOver(attempts, Cards)

C13_ActiveCountsRunning ==
  /\ active = Cardinality(running)
  /\ 0 <= active
  /\ active <= CONCURRENCY_LIMIT
  /\ running = {} => active = 0

\* the runner is idle again after it was full and a job rejected
C13_Witness ==
  /\ running = {}
  /\ active = 0
  /\ lastStart > CONCURRENCY_LIMIT
  /\ \E c \in Cards : lastSettle[c].state = "fulfilled" /\ ~lastSettle[c].ok

\* item c has a session that can still act: an attempt in the runner, a
\* timer, or a sleep of the resolver
Alive(c) ==
  QueuedFor(c) # {} \/ RunningFor(c) # {} \/ SessionsOf(sessions, c) # {}
Terminal(c) == ChapterState(c) \in {"Resolved", "Unknown"}

\* C14: a session of an item that stays on the page ends, with the item
\* Resolved or Unknown, after at most LONG_RETRY_MAX + 1 resolver calls: no
\* item has more calls, the session of an item on the page ends only in
\* Resolved or Unknown, and again and again no item on the page has a
\* session.
C14_SessionTerminates ==
  /\ [](\A c \in Cards : calls[c] <= LONG_RETRY_MAX + 1)
  /\ [][\A c \in onPage \cap onPage' :
          (Alive(c) /\ ~Alive(c)') => Terminal(c)']_vars
  /\ []<>(\A c \in onPage : ~Alive(c))

\* an item never reported twice is Resolved by its last possible call
C14_Witness ==
  \E c \in onPage \ rediscovered :
    /\ ChapterState(c) = "Resolved"
    /\ calls[c] = LONG_RETRY_MAX + 1
    /\ failedCalls[c] = LONG_RETRY_MAX

\* C15: when attempt a of a fetchLatestChapter call fails and a is not the
\* last one, the call sleeps SHORT_RETRY_BASE * 2^a (and then makes attempt
\* a + 1) instead of returning.
C15_ShortRetryAfterFailure ==
  [][\A s \in sessions :
       ( /\ s.pc = "await"
         /\ s \notin sessions'
         /\ s.a < SHORT_RETRY_COUNT - 1
         /\ lastSettle'[s.card].resolve = IdOf(s)
         /\ ~lastSettle'[s.card].ok )
       => \E u \in sessions' :
            /\ u.card = s.card
            /\ u.pc = "sleep"
            /\ u.a = s.a
            /\ u.delay = ShortDelay(s.a)]_vars

\* C16: no long-retry timer is scheduled for an item that is not on the page
\* at that moment.
C16_NoTimerWhenNotLive ==
  [][\A c \in Cards :
       Len(timerLog'[c]) > Len(timerLog[c]) => c \in onPage]_vars

\* C17: a call of tryFillBadge for an item that is not on the page (the
\* first call, made by enhanceCard, or the call made by a long-retry timer)
\* changes nothing: the badge and chapter value stay as they are (for the
\* first call: as enhanceCard has just set them, Pending), the queue, the
\* active counter, the running jobs and the other timers stay, and no
\* resolver call is made.
C17_AbsentStepChangesNothing ==
  [][/\ \A s \in sessions :
          (s.pc = "timer" /\ s \notin sessions' /\ s.card \notin onPage) =>
            /\ sessions' = sessions \ {s}
            /\ UNCHANGED <<badge, datasetChap, display, queue, active, running,
                           sleepers, attempts, calls, timerLog, submitted>>
     /\ \A c \in Cards :
          ( /\ c \notin processed
            /\ c \in processed'
            /\ c \notin onPage'
            /\ dom[c].cover
            /\ dom[c].idLink ) =>
            /\ badge' = [badge EXCEPT ![c] = ELLIPSIS]
            /\ started'[c] = 1
            /\ UNCHANGED <<datasetChap, display, queue, active, running,
                           sleepers, sessions, attempts, calls, timerLog,
                           submitted>>]_vars

\* an item off the page whose long-retry timer has fired: Pending, without
\* timer, session or attempt
C17_Witness ==
  \E c \in Cards \ onPage :
    /\ badge[c] = ELLIPSIS
    /\ timerLog[c] # <<>>
    /\ ~Alive(c)
    /\ calls[c] = Len(timerLog[c])

\* C18: the queue holds one entry per runJob call that has not dequeued
\* yet (the calls in sleep(50)), each entry once and none of a job that
\* runs or has settled; so the call that finds a free slot finds an entry.
C18_OneEntryPerWaitingCall ==
  /\ Len(queue) = Cardinality(sleepers)
  /\ \A i, j \in 1..Len(queue) : queue[i].job = queue[j].job => i = j
  /\ \A i \in 1..Len(queue) :
       /\ queue[i].job \notin {e.job : e \in running}
       /\ queue[i].resolve \notin settledIds
  /\ submitted = Len(queue) + Cardinality(running) + Cardinality(settledIds)

\* the waiting call will dequeue the entry of another call: its own job
\* was started by that call
C18_Witness ==
  \E p \in sleepers :
    /\ Len(queue) = 1
    /\ queue[1].job # p
    /\ p \in settledIds \cup {e.job : e \in running}

\* C19: no submission is starved or lost: again and again every job
\* submitted so far has been started (the jobs start in submission order,
\* lastStart counts them) and every promise handed out so far is settled.
C19_EverySubmissionServed ==
  []<>(/\ lastStart = submitted
       /\ Cardinality(settledIds) = submitted
       /\ queue = <<>>
       /\ sleepers = {})

\* a burst larger than CONCURRENCY_LIMIT served to the end, one of its jobs
\* after waiting for a slot
C19_Witness ==
  /\ submitted > CONCURRENCY_LIMIT
  /\ lastStart = submitted
  /\ Cardinality(settledIds) = submitted
  /\ running = {}
  /\ \E c \in Steady : lastSettle[c].by # lastSettle[c].resolve

\* C20: an item with an identifier that is on the page from some point on
\* does not stay Pending forever, whatever removals and re-insertions came
\* before: again and again it is off the page or not Pending.
C20_ReinsertedItemSettles ==
  \A c \in Cards :
    []<>(c \notin onPage \/ ~dom[c].idLink \/ ChapterState(c) # "Pending")

====
